---- MODULE Spec2Model ----
(***************************************************************************)
(* Model of the ChitFund ink! contract (src/lib.rs): the storage struct,   *)
(* its constructor and its five messages join, begin_cycle, deposit, draw  *)
(* and end_cycle, with the private helper get_random_account.              *)
(*                                                                         *)
(* Every message is modelled as an operator on the storage struct that     *)
(* returns the Result of the call together with the struct as the method   *)
(* body leaves it (the method takes &mut self, so what it wrote before an  *)
(* early return stays written).  Balances and the round counter are        *)
(* naturals kept below the model bounds by guards of the actions.          *)
(***************************************************************************)
EXTENDS Integers, Sequences, FiniteSets, TLC

\* ---- bounds of the model ------------------------------------------------
NumAccounts == 3          \* distinct AccountIds that call the contract
MaxMaxParticipants == 2   \* largest max_participants given to new()
MaxContribution == 1      \* largest monthly_contribution given to new()
MaxValue == 2             \* largest value attached to a deposit
MaxPot == 2               \* cap on pot
MaxDeposited == 2         \* cap on the cumulative deposits (ghost)
MaxPaid == 4              \* cap on the cumulative payouts (ghost)
MaxRound == 3             \* cap on current_round
MaxBlock == 2             \* block numbers seen by draw are 0..MaxBlock
MaxSeq == 15              \* last block number of a run of successive draws

Accounts == 1..NumAccounts
NoAccount == 0            \* Option::None for an AccountId

VARIABLES
    fund,        \* the ChitFund storage struct
    last,        \* the most recent call: message, caller, inputs, Result
    deposited,   \* sum of the values accepted by successful deposits
    paid,        \* sum of the amounts handed to env().transfer by draw
    closed,      \* participants and current_round as they stood right
                 \* before the most recent successful end_cycle
    args,        \* the arguments the constructor was called with
    wins,        \* the winners of the successful draws since the last draw
                 \* that removed elements from used_indexes, in order
    phase_op,    \* the last successful end_cycle / begin_cycle, or "none"
    seed,        \* block number of the next draw of a run of successive draws
    streak       \* FailedToGetWinner results in a row within such a run

vars == <<fund, last, deposited, paid, closed, args, wins, phase_op, seed, streak>>

\* ---- helpers ------------------------------------------------------------
\* Vec::contains
Contains(v, a) == \E i \in 1..Len(v) : v[i] = a

\* the elements of a Vec
Elems(v) == {v[i] : i \in 1..Len(v)}

IsPrefix(s, t) == Len(s) <= Len(t) /\ SubSeq(t, 1, Len(s)) = s

\* ---- the contract -------------------------------------------------------
\* constructor that starts the round counter at 0
new_round_zero(a, mp, mc) ==
    [admin |-> a,
     max_participants |-> mp,
     monthly_contribution |-> mc,
     current_round |-> 0,
     pot |-> 0,
     total_amount |-> 0,
     participants |-> <<>>,
     used_indexes |-> <<>>,
     finished |-> FALSE]

\* ChitFund::new
new(a, mp, mc) ==
    [admin |-> a,
     max_participants |-> mp,
     monthly_contribution |-> mc,
     current_round |-> 1,
     pot |-> 0,
     total_amount |-> 0,
     participants |-> <<>>,
     used_indexes |-> <<>>,
     finished |-> FALSE]

\* join with the capacity test off by one (> for >=)
join_off_by_one(self, caller) ==
    IF Len(self.participants) > self.max_participants
    THEN [result |-> "ParticipantsAlreadyFull", self |-> self]
    ELSE IF self.finished
    THEN [result |-> "ChitFundHasFinished", self |-> self]
    ELSE IF Contains(self.participants, caller)
    THEN [result |-> "AlreadyJoined", self |-> self]
    ELSE [result |-> "Ok",
          self |-> [self EXCEPT !.participants = Append(@, caller)]]

\* join that inserts the caller at the front of the registry
join_prepends(self, caller) ==
    IF Len(self.participants) >= self.max_participants
    THEN [result |-> "ParticipantsAlreadyFull", self |-> self]
    ELSE IF self.finished
    THEN [result |-> "ChitFundHasFinished", self |-> self]
    ELSE IF Contains(self.participants, caller)
    THEN [result |-> "AlreadyJoined", self |-> self]
    ELSE [result |-> "Ok",
          self |-> [self EXCEPT !.participants = <<caller>> \o @]]

\* ChitFund::join
join(self, caller) ==
    IF Len(self.participants) >= self.max_participants
    THEN [result |-> "ParticipantsAlreadyFull", self |-> self]
    ELSE IF self.finished
    THEN [result |-> "ChitFundHasFinished", self |-> self]
    ELSE IF Contains(self.participants, caller)
    THEN [result |-> "AlreadyJoined", self |-> self]
    ELSE [result |-> "Ok",
          self |-> [self EXCEPT !.participants = Append(@, caller)]]

\* begin_cycle that also advances the round counter, as end_cycle does
begin_cycle_bumps_round(self, caller) ==
    IF caller # self.admin
    THEN [result |-> "OnlyOwnerCanBeginCycle", self |-> self]
    ELSE IF ~self.finished
    THEN [result |-> "ChitFundNotFinished", self |-> self]
    ELSE [result |-> "Ok",
          self |-> [self EXCEPT !.total_amount = self.pot,
                                !.pot = 0,
                                !.current_round = @ + 1,
                                !.finished = FALSE]]

\* ChitFund::begin_cycle
begin_cycle(self, caller) ==
    IF caller # self.admin
    THEN [result |-> "OnlyOwnerCanBeginCycle", self |-> self]
    ELSE IF ~self.finished
    THEN [result |-> "ChitFundNotFinished", self |-> self]
    ELSE [result |-> "Ok",
          self |-> [self EXCEPT !.total_amount = self.pot,
                                !.pot = 0,
                                !.finished = FALSE]]

\* deposit without the phase test
deposit_any_phase(self, caller, value) ==
    IF ~Contains(self.participants, caller)
    THEN [result |-> "NotParticipant", self |-> self]
    ELSE [result |-> "Ok",
          self |-> [self EXCEPT !.pot = @ + value]]

\* deposit that overwrites the pot (= for +=)
deposit_overwrites(self, caller, value) ==
    IF ~Contains(self.participants, caller)
    THEN [result |-> "NotParticipant", self |-> self]
    ELSE IF self.finished
    THEN [result |-> "ChitFundHasFinished", self |-> self]
    ELSE [result |-> "Ok",
          self |-> [self EXCEPT !.pot = value]]

\* ChitFund::deposit; value is env().transferred_value()
deposit(self, caller, value) ==
    IF ~Contains(self.participants, caller)
    THEN [result |-> "NotParticipant", self |-> self]
    ELSE IF self.finished
    THEN [result |-> "ChitFundHasFinished", self |-> self]
    ELSE [result |-> "Ok",
          self |-> [self EXCEPT !.pot = @ + value]]

\* get_random_account without the used_indexes test
get_random_account_no_test(participants, used_indexes, block_number) ==
    IF participants = <<>>
    THEN [account |-> NoAccount, used_indexes |-> used_indexes]
    ELSE LET idx == block_number % Len(participants)
             account_id == participants[idx + 1]
         IN [account |-> account_id,
             used_indexes |-> Append(used_indexes, account_id)]

\* get_random_account that goes on to the next indexes when the probed
\* participant has won already
get_random_account_scans(participants, used_indexes, block_number) ==
    IF participants = <<>>
    THEN [account |-> NoAccount, used_indexes |-> used_indexes]
    ELSE LET n == Len(participants)
             free == {k \in 0..(n - 1) :
                        ~Contains(used_indexes, participants[((block_number + k) % n) + 1])}
         IN IF free = {}
            THEN [account |-> NoAccount, used_indexes |-> used_indexes]
            ELSE LET k == CHOOSE x \in free : \A y \in free : x <= y
                     account_id == participants[((block_number + k) % n) + 1]
                 IN [account |-> account_id,
                     used_indexes |-> Append(used_indexes, account_id)]

\* ChitFund::get_random_account: None is account = NoAccount; used_indexes
\* is the vector behind the &mut reference after the call
get_random_account(participants, used_indexes, block_number) ==
    IF participants = <<>>
    THEN [account |-> NoAccount, used_indexes |-> used_indexes]
    ELSE LET idx == block_number % Len(participants)
             account_id == participants[idx + 1]
         IN IF Contains(used_indexes, account_id)
            THEN [account |-> NoAccount, used_indexes |-> used_indexes]
            ELSE [account |-> account_id,
                  used_indexes |-> Append(used_indexes, account_id)]

\* exhaustion reset that clears the wrong vector
draw_reset_participants(self) ==
    IF Len(self.used_indexes) = Len(self.participants)
    THEN [self EXCEPT !.participants = <<>>]
    ELSE self

\* exhaustion reset that fires one element early
draw_reset_early(self) ==
    IF Len(self.used_indexes) + 1 >= Len(self.participants)
    THEN [self EXCEPT !.used_indexes = <<>>]
    ELSE self

\* draw without the exhaustion reset
draw_reset_never(self) == self

\* the first statement of ChitFund::draw: the exhaustion reset
draw_reset(self) ==
    IF Len(self.used_indexes) = Len(self.participants)
    THEN [self EXCEPT !.used_indexes = <<>>]
    ELSE self

\* ChitFund::draw; block_number is env().block_number().  amount is what is
\* handed to env().transfer, whose Result the method drops.  total_amount -
\* pot is a checked subtraction of unsigned balances: "Panic" when it would
\* go below zero.
draw(self, caller, block_number) ==
    LET s == draw_reset(self)
        g == get_random_account(s.participants, s.used_indexes, block_number)
        t == [s EXCEPT !.used_indexes = g.used_indexes]
    IN IF caller # s.admin
       THEN [result |-> "OnlyAdminCanDraw", self |-> s,
             winner |-> NoAccount, amount |-> 0]
       ELSE IF ~s.finished
       THEN [result |-> "ChitFundNotFinished", self |-> s,
             winner |-> NoAccount, amount |-> 0]
       ELSE IF g.account # NoAccount
       THEN IF t.total_amount >= t.pot
            THEN [result |-> "Ok", self |-> t,
                  winner |-> g.account, amount |-> t.total_amount - t.pot]
            ELSE [result |-> "Panic", self |-> t,
                  winner |-> NoAccount, amount |-> 0]
       ELSE [result |-> "FailedToGetWinner", self |-> t,
             winner |-> NoAccount, amount |-> 0]

\* end_cycle that forgets to empty the pot
end_cycle_keeps_pot(self, caller) ==
    IF caller # self.admin
    THEN [result |-> "OnlyOwnerCanEndCycle", self |-> self]
    ELSE IF self.finished
    THEN [result |-> "ChitFundAlreadyFinished", self |-> self]
    ELSE [result |-> "Ok",
          self |-> [self EXCEPT !.total_amount = self.pot,
                                !.current_round = @ + 1,
                                !.finished = TRUE]]

\* end_cycle that advances the round counter by two
end_cycle_skips_round(self, caller) ==
    IF caller # self.admin
    THEN [result |-> "OnlyOwnerCanEndCycle", self |-> self]
    ELSE IF self.finished
    THEN [result |-> "ChitFundAlreadyFinished", self |-> self]
    ELSE [result |-> "Ok",
          self |-> [self EXCEPT !.total_amount = self.pot,
                                !.pot = 0,
                                !.current_round = @ + 2,
                                !.finished = TRUE]]

\* end_cycle without the phase test
end_cycle_any_phase(self, caller) ==
    IF caller # self.admin
    THEN [result |-> "OnlyOwnerCanEndCycle", self |-> self]
    ELSE [result |-> "Ok",
          self |-> [self EXCEPT !.total_amount = self.pot,
                                !.pot = 0,
                                !.current_round = @ + 1,
                                !.finished = TRUE]]

\* ChitFund::end_cycle
end_cycle(self, caller) ==
    IF caller # self.admin
    THEN [result |-> "OnlyOwnerCanEndCycle", self |-> self]
    ELSE IF self.finished
    THEN [result |-> "ChitFundAlreadyFinished", self |-> self]
    ELSE [result |-> "Ok",
          self |-> [self EXCEPT !.total_amount = self.pot,
                                !.pot = 0,
                                !.current_round = @ + 1,
                                !.finished = TRUE]]

\* ---- the state machine --------------------------------------------------
\* the record of one call; cleared tells whether the call removed elements
\* from used_indexes in the exhaustion reset
Call(op, caller, value, block_number, result, winner, amount, cleared) ==
    [op |-> op, caller |-> caller, value |-> value,
     block_number |-> block_number, result |-> result,
     winner |-> winner, amount |-> amount, cleared |-> cleared]

InitFund ==
    /\ \E a \in Accounts, mp \in 0..MaxMaxParticipants, mc \in 1..MaxContribution :
           /\ fund = new(a, mp, mc)
           /\ args = [admin |-> a, max_participants |-> mp,
                      monthly_contribution |-> mc]
    /\ wins = <<>>
    /\ phase_op = "none"
    /\ streak = 0
    /\ last = Call("new", NoAccount, 0, 0, "Ok", NoAccount, 0, FALSE)
    /\ deposited = 0
    /\ paid = 0
    /\ closed = [participants |-> <<>>, current_round |-> 0]

Init == InitFund /\ seed = 0

Join ==
    \E caller \in Accounts :
        LET r == join(fund, caller)
        IN /\ fund' = r.self
           /\ last' = Call("join", caller, 0, 0, r.result, NoAccount, 0, FALSE)
           /\ UNCHANGED <<deposited, paid, closed, args, wins, phase_op, seed, streak>>

BeginCycle ==
    \E caller \in Accounts :
        LET r == begin_cycle(fund, caller)
        IN /\ fund' = r.self
           /\ last' = Call("begin_cycle", caller, 0, 0, r.result, NoAccount, 0, FALSE)
           /\ phase_op' = IF r.result = "Ok" THEN "begin_cycle" ELSE phase_op
           /\ UNCHANGED <<deposited, paid, closed, args, wins, seed, streak>>

Deposit ==
    \E caller \in Accounts, value \in 0..MaxValue :
        LET r == deposit(fund, caller, value)
        IN /\ r.result = "Ok" => /\ fund.pot + value <= MaxPot
                                 /\ deposited + value <= MaxDeposited
           /\ fund' = r.self
           /\ last' = Call("deposit", caller, value, 0, r.result, NoAccount, 0, FALSE)
           /\ deposited' = IF r.result = "Ok" THEN deposited + value ELSE deposited
           /\ UNCHANGED <<paid, closed, args, wins, phase_op, seed, streak>>

\* wins after a draw call that returned r
WinsAfter(r) ==
    LET kept == IF draw_reset(fund).used_indexes # fund.used_indexes
                THEN <<>> ELSE wins
    IN IF r.result = "Ok" THEN Append(kept, r.winner) ELSE kept

Draw ==
    \E caller \in Accounts, block_number \in 0..MaxBlock :
        LET r == draw(fund, caller, block_number)
        IN /\ r.result = "Ok" => paid + r.amount <= MaxPaid
           /\ fund' = r.self
           /\ last' = Call("draw", caller, 0, block_number, r.result,
                           r.winner, r.amount,
                           draw_reset(fund).used_indexes # fund.used_indexes)
           /\ paid' = IF r.result = "Ok" THEN paid + r.amount ELSE paid
           /\ wins' = WinsAfter(r)
           /\ UNCHANGED <<deposited, closed, args, phase_op, seed, streak>>

EndCycle ==
    \E caller \in Accounts :
        LET r == end_cycle(fund, caller)
        IN /\ r.result = "Ok" => fund.current_round < MaxRound
           /\ fund' = r.self
           /\ last' = Call("end_cycle", caller, 0, 0, r.result, NoAccount, 0, FALSE)
           /\ closed' = IF r.result = "Ok"
                        THEN [participants |-> fund.participants,
                              current_round |-> fund.current_round]
                        ELSE closed
           /\ phase_op' = IF r.result = "Ok" THEN "end_cycle" ELSE phase_op
           /\ UNCHANGED <<deposited, paid, args, wins, seed, streak>>

Next == Join \/ BeginCycle \/ Deposit \/ Draw \/ EndCycle

Spec == Init /\ [][Next]_vars

\* A run of successive draws: in the Drawing phase the admin calls draw
\* again and again, each call one block after the previous one.  seed = 0
\* until the run starts, at any block; then seed is the block of the next
\* call.
DrawSeq ==
    /\ fund.finished
    /\ seed < MaxSeq
    /\ \E block_number \in (IF seed = 0 THEN 0..MaxBlock ELSE {seed}) :
          LET r == draw(fund, fund.admin, block_number)
          IN /\ fund' = r.self
             /\ last' = Call("draw", fund.admin, 0, block_number, r.result,
                             r.winner, r.amount,
                             draw_reset(fund).used_indexes # fund.used_indexes)
             /\ paid' = IF r.result = "Ok" THEN paid + r.amount ELSE paid
             /\ wins' = WinsAfter(r)
             /\ seed' = block_number + 1
             /\ streak' = IF r.result = "FailedToGetWinner"
                          THEN streak + 1 ELSE 0
             /\ UNCHANGED <<deposited, closed, args, phase_op>>

\* the successful calls that bring the fund to the state the run starts in
SetUp ==
    /\ seed = 0
    /\ Join \/ EndCycle \/ Draw \/ BeginCycle
    /\ last'.result = "Ok"

SeqNext == SetUp \/ DrawSeq

SeqSpec == Init /\ [][SeqNext]_vars /\ WF_vars(DrawSeq)

\* ---- type correctness ---------------------------------------------------
TypeOK ==
    /\ fund.admin \in Accounts
    /\ fund.max_participants \in 0..MaxMaxParticipants
    /\ fund.current_round \in 1..MaxRound
    /\ fund.pot \in 0..MaxPot
    /\ fund.total_amount \in 0..MaxPot
    /\ fund.finished \in BOOLEAN
    /\ deposited \in 0..MaxDeposited
    /\ paid \in 0..MaxPaid

\* ---- properties ---------------------------------------------------------
\* the step is a call of message op that returned Ok
Succeeded(op) == last'.op = op /\ last'.result = "Ok"

\* the step is a call that returned Err(_)
Failed == last'.result \notin {"Ok", "Panic"}

\* C1: a call of join, deposit, end_cycle, draw or begin_cycle that returns
\* an error leaves every field of the fund as it was before the call.
C1_AtomicOnFailure == [][Failed => fund' = fund]_vars

\* C2: the cumulative amount handed to winners by successful draws never
\* exceeds the cumulative amount accepted by successful deposits.
C2_PotConservation == paid <= deposited

\* C3 as stated: after a successful draw the winner was not in used_indexes
\* as it stood right before the call, is in used_indexes after the call, and
\* the amount transferred is total_amount - pot at call time.
C3_WinnerFreshBeforeCall ==
    [][Succeeded("draw") =>
          /\ ~Contains(fund.used_indexes, last'.winner)
          /\ Contains(fund'.used_indexes, last'.winner)
          /\ last'.amount = fund.total_amount - fund.pot
          /\ paid' = paid + last'.amount]_vars

\* C3 amended: after a successful draw the winner was not in used_indexes as
\* it stood right before the call unless used_indexes then had as many
\* elements as participants (it is then cleared before the selection); the
\* winner is in used_indexes after the call, and the amount transferred is
\* total_amount - pot at call time.
C3_WinnerFreshAfterReset ==
    [][Succeeded("draw") =>
          /\ Len(fund.used_indexes) # Len(fund.participants)
                => ~Contains(fund.used_indexes, last'.winner)
          /\ Contains(fund.participants, last'.winner)
          /\ Contains(fund'.used_indexes, last'.winner)
          /\ last'.amount = fund.total_amount - fund.pot
          /\ paid' = paid + last'.amount]_vars

C3_Witness ==
    /\ last.op = "draw" /\ last.result = "Ok"
    /\ last.amount > 0
    /\ Len(fund.used_indexes) = 2
    /\ fund.used_indexes[2] = last.winner

\* C4: a draw call (successful or not) drops what used_indexes held before
\* the call if and only if used_indexes and participants then had the same
\* length, and otherwise keeps it as a prefix; join, deposit, end_cycle and
\* begin_cycle leave used_indexes as it is.
C4_ClearedExactlyWhenExhausted ==
    [][/\ last'.op = "draw" =>
            IF Len(fund.used_indexes) = Len(fund.participants)
            THEN /\ fund'.used_indexes \in {<<>>, <<last'.winner>>}
                 /\ Len(fund'.used_indexes) = 1 <=> last'.result = "Ok"
            ELSE /\ IsPrefix(fund.used_indexes, fund'.used_indexes)
                 /\ fund.used_indexes # <<>> => fund'.used_indexes # <<>>
       /\ last'.op # "draw" => fund'.used_indexes = fund.used_indexes]_vars

C4_Witness ==
    /\ last.op = "draw" /\ last.cleared
    /\ Len(fund.participants) = 2
    /\ fund.used_indexes = <<>>

\* C5: participants never holds an identifier twice and never more than
\* max_participants of them; a join by a caller outside a full registry
\* fails with ParticipantsAlreadyFull.
C5_RegistryBoundAndUnique ==
    /\ [](/\ Cardinality(Elems(fund.participants)) = Len(fund.participants)
          /\ Len(fund.participants) <= fund.max_participants)
    /\ [][(/\ last'.op = "join"
           /\ Len(fund.participants) = fund.max_participants
           /\ ~Contains(fund.participants, last'.caller))
          => /\ last'.result = "ParticipantsAlreadyFull"
             /\ fund'.participants = fund.participants]_vars

C5_Witness ==
    /\ last.op = "join" /\ last.result = "ParticipantsAlreadyFull"
    /\ ~Contains(fund.participants, last.caller)
    /\ Len(fund.participants) = 2
    /\ ~fund.finished

\* some caller's deposit would succeed in this state
DepositCanSucceed ==
    \E caller \in Accounts, value \in 0..MaxValue :
        deposit(fund, caller, value).result = "Ok"

\* some caller's draw would succeed in this state
DrawCanSucceed ==
    \E caller \in Accounts, block_number \in 0..MaxBlock :
        draw(fund, caller, block_number).result = "Ok"

\* C6: a deposit succeeds only from a state with finished = false, a draw
\* only from a state with finished = true, and in no state can both a
\* deposit and a draw succeed.
C6_PhaseExclusive ==
    /\ [][/\ Succeeded("deposit") => ~fund.finished
          /\ Succeeded("draw") => fund.finished]_vars
    /\ [](~(DepositCanSucceed /\ DrawCanSucceed))

C6_Witness ==
    /\ last.op = "draw" /\ last.result = "Ok"
    /\ deposited > 0
    /\ DrawCanSucceed /\ ~DepositCanSucceed

\* C7 as stated: every successful deposit strictly increases pot, by exactly
\* the attached value, and none succeeds while finished = true.
C7_DepositStrictlyIncreases ==
    [][Succeeded("deposit") =>
          /\ fund'.pot > fund.pot
          /\ fund'.pot = fund.pot + last'.value
          /\ ~fund.finished]_vars

\* C7 amended: every successful deposit leaves pot equal to the pot before
\* the call plus exactly the attached value, which is a strict increase
\* when the attached value is positive and no change when it is zero (a
\* deposit of zero succeeds too); none succeeds while finished = true.
C7_DepositAddsValue ==
    [][Succeeded("deposit") =>
          /\ fund'.pot = fund.pot + last'.value
          /\ last'.value > 0 => fund'.pot > fund.pot
          /\ last'.value = 0 => fund' = fund
          /\ deposited' = deposited + last'.value
          /\ ~fund.finished]_vars

C7_Witness ==
    /\ last.op = "deposit" /\ last.result = "Ok"
    /\ last.value = 0
    /\ fund.pot > 0

\* C8: after a successful end_cycle total_amount is the pot of before the
\* call, pot is 0, current_round is one more than before, finished is true
\* and participants and used_indexes are as before.
C8_EndCycleEffect ==
    [][Succeeded("end_cycle") =>
          /\ fund'.total_amount = fund.pot
          /\ fund'.pot = 0
          /\ fund'.current_round = fund.current_round + 1
          /\ fund'.finished
          /\ fund'.participants = fund.participants
          /\ fund'.used_indexes = fund.used_indexes]_vars

C8_Witness ==
    /\ last.op = "end_cycle" /\ last.result = "Ok"
    /\ fund.total_amount > 0
    /\ fund.used_indexes # <<>>
    /\ fund.current_round = 3

\* C9 as stated: after a successful end_cycle followed by a successful
\* begin_cycle finished is false and participants and current_round are
\* what they were before the end_cycle.
C9_RoundTripKeepsRound ==
    (last.op = "begin_cycle" /\ last.result = "Ok") =>
        /\ ~fund.finished
        /\ fund.participants = closed.participants
        /\ fund.current_round = closed.current_round

\* C9 amended: after a successful end_cycle followed by a successful
\* begin_cycle finished is false, participants is what it was before the
\* end_cycle, and current_round is exactly one more than before the
\* end_cycle (the increment of end_cycle, which begin_cycle leaves alone).
C9_RoundTripKeepsRegistry ==
    (last.op = "begin_cycle" /\ last.result = "Ok") =>
        /\ ~fund.finished
        /\ fund.participants = closed.participants
        /\ fund.current_round = closed.current_round + 1

C9_Witness ==
    /\ last.op = "begin_cycle" /\ last.result = "Ok"
    /\ Len(fund.participants) = 2
    /\ fund.current_round = 3
    /\ paid > 0

\* C10: every identifier in used_indexes is also in participants.
C10_UsedSubsetOfParticipants ==
    Elems(fund.used_indexes) \subseteq Elems(fund.participants)

C10_Witness ==
    /\ last.op = "join" /\ last.result = "Ok"
    /\ Len(fund.used_indexes) = 1
    /\ Len(fund.participants) = 2

\* the number of occurrences of a in v
Count(v, a) == Cardinality({i \in 1..Len(v) : v[i] = a})

\* C11: between two clearings of used_indexes (or construction and the
\* first clearing) no participant wins more than one successful draw, and a
\* draw clears used_indexes only when every enrolled participant has won
\* exactly once since the previous clearing.
C11_NoRepeatWinnerUntilExhaustion ==
    /\ [](\A a \in Accounts : Count(wins, a) <= 1)
    /\ [][(last'.op = "draw" /\ last'.cleared) =>
             \A a \in Elems(fund.participants) : Count(wins, a) = 1]_vars

C11_Witness ==
    /\ last.op = "draw" /\ last.cleared /\ last.result = "Ok"
    /\ Len(fund.participants) = 2
    /\ wins = <<last.winner>>
    /\ fund.current_round = 3

\* C12: for a caller other than admin, end_cycle fails with
\* OnlyOwnerCanEndCycle, draw with OnlyAdminCanDraw and begin_cycle with
\* OnlyOwnerCanBeginCycle, each leaving the fund as it was; no call changes
\* admin or max_participants.
C12_AdminGating ==
    /\ [][(last'.caller # fund.admin
           /\ last'.op \in {"end_cycle", "draw", "begin_cycle"}) =>
             /\ last'.op = "end_cycle" => last'.result = "OnlyOwnerCanEndCycle"
             /\ last'.op = "draw" => last'.result = "OnlyAdminCanDraw"
             /\ last'.op = "begin_cycle" => last'.result = "OnlyOwnerCanBeginCycle"
             /\ fund' = fund]_vars
    /\ [][/\ fund'.admin = fund.admin
          /\ fund'.max_participants = fund.max_participants]_vars

\* C13: current_round is at least 1, and a step changes it only when it is
\* a successful end_cycle, which adds exactly 1.
C13_RoundSequencing ==
    /\ [](fund.current_round >= 1)
    /\ [][IF Succeeded("end_cycle")
          THEN fund'.current_round = fund.current_round + 1
          ELSE fund'.current_round = fund.current_round]_vars

C13_Witness ==
    /\ last.op = "end_cycle" /\ last.result = "Ok"
    /\ fund.current_round = 3
    /\ closed.current_round = 2

\* C14: the fund as the constructor leaves it holds the three arguments
\* and current_round = 1, pot = 0, total_amount = 0, no participants, no
\* used indexes and finished = false.
C14_InitialState ==
    last.op = "new" =>
        fund = [admin |-> args.admin,
                max_participants |-> args.max_participants,
                monthly_contribution |-> args.monthly_contribution,
                current_round |-> 1,
                pot |-> 0,
                total_amount |-> 0,
                participants |-> <<>>,
                used_indexes |-> <<>>,
                finished |-> FALSE]

C14_Witness ==
    /\ last.op = "new"
    /\ args.admin = 2
    /\ args.max_participants = 2
    /\ fund.admin = 2

\* used_indexes as the exhaustion reset of a draw leaves it
UsedAfterReset ==
    IF Len(fund.used_indexes) = Len(fund.participants)
    THEN <<>> ELSE fund.used_indexes

\* the one participant a draw at block b probes
Probed(b) == fund.participants[(b % Len(fund.participants)) + 1]

\* C15: an admin draw in the Drawing phase at block s succeeds if and only
\* if participants[s mod n] is not in used_indexes after the reset, the
\* winner being that participant; otherwise it fails with FailedToGetWinner
\* and adds nothing to used_indexes; with no participants it always fails
\* with FailedToGetWinner.
C15_SingleProbe ==
    [][(last'.op = "draw" /\ last'.caller = fund.admin /\ fund.finished) =>
          IF fund.participants = <<>>
          THEN /\ last'.result = "FailedToGetWinner"
               /\ fund'.used_indexes = <<>>
          ELSE IF ~Contains(UsedAfterReset, Probed(last'.block_number))
          THEN /\ last'.result = "Ok"
               /\ last'.winner = Probed(last'.block_number)
               /\ fund'.used_indexes =
                      Append(UsedAfterReset, Probed(last'.block_number))
          ELSE /\ last'.result = "FailedToGetWinner"
               /\ last'.winner = NoAccount
               /\ fund'.used_indexes = UsedAfterReset]_vars

C15_Witness ==
    /\ last.op = "draw" /\ last.result = "FailedToGetWinner"
    /\ last.caller = fund.admin
    /\ Len(fund.participants) = 2
    /\ Len(fund.used_indexes) = 1

\* a run of successive draws on a non-empty registry has at least budget
\* more blocks to go
RunOpen(budget) ==
    /\ seed > 0
    /\ fund.finished
    /\ fund.participants # <<>>
    /\ seed + budget <= MaxSeq

\* the last call is a successful draw
LastDrawOk == last.op = "draw" /\ last.result = "Ok"

\* C16: in a run of successive draws on a non-empty registry of length n
\* there are never more than n - 1 FailedToGetWinner results in a row; a
\* draw succeeds after any state of the run whose last call is not a
\* successful draw, and every enrolled participant who is not the winner
\* of the last call wins a later draw.
C16_EventualDrawSuccess ==
    /\ [](fund.participants # <<>> => streak <= Len(fund.participants) - 1)
    /\ (RunOpen(Len(fund.participants)) /\ ~LastDrawOk) ~> LastDrawOk
    /\ \A a \in Accounts :
          (/\ RunOpen(Len(fund.participants) * (Len(fund.participants) + 1))
           /\ Contains(fund.participants, a)
           /\ ~(LastDrawOk /\ last.winner = a))
          ~> (LastDrawOk /\ last.winner = a)

C16_Witness ==
    /\ last.op = "draw" /\ last.result = "Ok"
    /\ Len(fund.participants) = 2
    /\ wins = fund.participants
    /\ seed >= 4
    /\ streak = 0

\* C17: finished is true exactly after a successful end_cycle that no
\* successful begin_cycle has followed; successful end_cycle and
\* begin_cycle alternate, end_cycle first; the admin's end_cycle in the
\* Drawing phase fails with ChitFundAlreadyFinished and the admin's
\* begin_cycle in the Collecting phase with ChitFundNotFinished; join,
\* deposit and draw leave finished alone.
C17_PhaseAlternation ==
    /\ [](fund.finished <=> phase_op = "end_cycle")
    /\ [][/\ Succeeded("end_cycle") => phase_op \in {"none", "begin_cycle"}
          /\ Succeeded("begin_cycle") => phase_op = "end_cycle"
          /\ (last'.op = "end_cycle" /\ last'.caller = fund.admin /\ fund.finished)
                => last'.result = "ChitFundAlreadyFinished"
          /\ (last'.op = "begin_cycle" /\ last'.caller = fund.admin /\ ~fund.finished)
                => last'.result = "ChitFundNotFinished"
          /\ last'.op \in {"join", "deposit", "draw"}
                => fund'.finished = fund.finished]_vars

C17_Witness ==
    /\ last.op = "end_cycle" /\ last.result = "ChitFundAlreadyFinished"
    /\ phase_op = "end_cycle"
    /\ fund.current_round = 3

\* C18: across every step the old participants is a prefix of the new one;
\* only a successful join changes it, appending the caller; in the Drawing
\* phase every join fails and participants stays as it is.
C18_AppendOnly ==
    [][/\ IsPrefix(fund.participants, fund'.participants)
       /\ IF Succeeded("join")
          THEN fund'.participants = Append(fund.participants, last'.caller)
          ELSE fund'.participants = fund.participants
       /\ fund.finished =>
             /\ fund'.participants = fund.participants
             /\ last'.op = "join" =>
                   last'.result \in {"ChitFundHasFinished",
                                     "ParticipantsAlreadyFull"}]_vars

C18_Witness ==
    /\ last.op = "join" /\ last.result = "Ok"
    /\ fund.participants = <<3, 1>>
    /\ last.caller = 1
    /\ fund.current_round = 2

\* C19: after every successful begin_cycle pot = 0 and total_amount = 0.
C19_BeginCycleZeroes ==
    (last.op = "begin_cycle" /\ last.result = "Ok") =>
        /\ fund.pot = 0
        /\ fund.total_amount = 0

C19_Witness ==
    /\ last.op = "begin_cycle" /\ last.result = "Ok"
    /\ deposited = 2
    /\ paid = 0

\* C20: pot = 0 whenever finished = true; the subtraction of a draw never
\* goes below zero and a successful draw pays exactly total_amount; a draw
\* call leaves pot, total_amount, current_round, finished and participants
\* as they were.
C20_DrawPaysTotal ==
    /\ [](fund.finished => fund.pot = 0)
    /\ [](last.result # "Panic")
    /\ [][/\ Succeeded("draw") => last'.amount = fund.total_amount
          /\ last'.op = "draw" =>
                /\ fund'.pot = fund.pot
                /\ fund'.total_amount = fund.total_amount
                /\ fund'.current_round = fund.current_round
                /\ fund'.finished = fund.finished
                /\ fund'.participants = fund.participants]_vars

C20_Witness ==
    /\ last.op = "draw" /\ last.result = "Ok"
    /\ last.amount = 2
    /\ fund.total_amount = 2
    /\ fund.pot = 0

====
